---------------------------- MODULE Spec2Model ----------------------------
(***************************************************************************)
(* Model of the openscope flight management system (Fms) and of the        *)
(* aircraft Model loader.                                                  *)
(*                                                                         *)
(* Text (route strings, fix names) is a sequence of one-character strings, *)
(* so that splitting, joining and lower-casing are computed, not assumed.  *)
(* Indices into legCollection and waypointCollection are 0-based as in the *)
(* source; Nth converts to the 1-based sequences of TLA+.                  *)
(***************************************************************************)
EXTENDS Integers, Sequences, FiniteSets, TLC

(***************************************************************************)
(* Bounds of the model.                                                    *)
(***************************************************************************)
\* longest initial route, in segments
MaxLegs == 2
\* number of addLegToBeginning calls explored
MaxAdds == 1
\* longest route walked from construction to its end, in segments
MaxWalkLegs == 3
\* number of generateAircraft calls made on one aircraft Model
MaxRequests == 3

(***************************************************************************)
(* Text helpers.                                                           *)
(***************************************************************************)
Nth(s, i) == s[i + 1]

UpperToLower ==
    [c \in {"A","B","C","D","E","F","G","H","I","J","K","L","M",
            "N","O","P","Q","R","S","T","U","V","W","X","Y","Z"} |->
        CASE c = "A" -> "a" [] c = "B" -> "b" [] c = "C" -> "c" [] c = "D" -> "d"
          [] c = "E" -> "e" [] c = "F" -> "f" [] c = "G" -> "g" [] c = "H" -> "h"
          [] c = "I" -> "i" [] c = "J" -> "j" [] c = "K" -> "k" [] c = "L" -> "l"
          [] c = "M" -> "m" [] c = "N" -> "n" [] c = "O" -> "o" [] c = "P" -> "p"
          [] c = "Q" -> "q" [] c = "R" -> "r" [] c = "S" -> "s" [] c = "T" -> "t"
          [] c = "U" -> "u" [] c = "V" -> "v" [] c = "W" -> "w" [] c = "X" -> "x"
          [] c = "Y" -> "y" [] c = "Z" -> "z"]

\* String.prototype.toLowerCase, character by character
toLowerCase(s) ==
    [i \in 1..Len(s) |-> IF s[i] \in DOMAIN UpperToLower THEN UpperToLower[s[i]] ELSE s[i]]

(***************************************************************************)
(* Navigation data: the fixes and the procedure the routes are built from. *)
(* A waypoint has a lower-case name, a position and the two restrictions,  *)
(* where -1 means no restriction.                                          *)
(***************************************************************************)
cowby == <<"c","o","w","b","y">>
bikkr == <<"b","i","k","k","r">>
dag == <<"d","a","g">>
clarr == <<"c","l","a","r","r">>
kepec == <<"k","e","p","e","c">>
kepecStar == <<"d","a","g",".","k","e","p","e","c","3",".","k","l","a","s">>
unknownFix == <<"z","z","z">>

Waypoint(n, p, a, s) ==
    [name |-> n, position |-> p, altitudeRestriction |-> a, speedRestriction |-> s]

\* the waypoints a route segment resolves to; <<>> when the lookup fails
WaypointsForSegment(seg) ==
    CASE seg = cowby -> << Waypoint(cowby, <<1, 1>>, -1, -1) >>
      [] seg = bikkr -> << Waypoint(bikkr, <<2, 1>>, -1, 280) >>
      [] seg = kepecStar -> << Waypoint(dag, <<3, 1>>, -1, -1),
                               Waypoint(clarr, <<3, 2>>, 13000, 250),
                               Waypoint(kepec, <<3, 3>>, 11000, -1) >>
      [] OTHER -> << >>

Segments == {cowby, bikkr, kepecStar}

(***************************************************************************)
(* LegModel: an ordered waypointCollection with a cursor.                  *)
(***************************************************************************)
\* the parts of a route segment: three for a procedure, entry.procedure.exit
RECURSIVE SplitOnDot(_, _)
SplitOnDot(s, part) ==
    IF s = << >> THEN << part >>
    ELSE IF s[1] = "."
         THEN << part >> \o SplitOnDot(Tail(s), << >>)
         ELSE SplitOnDot(Tail(s), Append(part, s[1]))

\* LegModel.routeString: a procedure leg renders as entryFix.procedureName.exitFix,
\* a direct-fix leg as the name of its fix
LegRouteString(segment, waypoints) ==
    LET parts == SplitOnDot(segment, << >>)
    IN  IF Len(parts) = 3
        THEN parts[1] \o <<".">> \o parts[2] \o <<".">> \o parts[3]
        ELSE IF waypoints = << >> THEN segment ELSE waypoints[1].name

LegModel(id, routeString) ==
    [id |-> id,
     routeString |-> LegRouteString(routeString, WaypointsForSegment(routeString)),
     waypointCollection |-> WaypointsForSegment(routeString), currentIndex |-> 0]

LegHasNextWaypoint(leg) == leg.currentIndex + 1 < Len(leg.waypointCollection)

LegCurrentWaypoint(leg) == Nth(leg.waypointCollection, leg.currentIndex)

\* only read when LegHasNextWaypoint(leg); JavaScript yields undefined otherwise
LegNextWaypoint(leg) == Nth(leg.waypointCollection, leg.currentIndex + 1)

LegMoveToNextWaypoint(leg) == [leg EXCEPT !.currentIndex = leg.currentIndex + 1]

LegSkipToWaypointAtIndex(leg, i) == [leg EXCEPT !.currentIndex = i]

(***************************************************************************)
(* The route string codec: segments are separated by "..".                 *)
(***************************************************************************)
RECURSIVE SplitOnSegmentDelimiter(_, _)
SplitOnSegmentDelimiter(s, segment) ==
    IF s = << >> THEN << segment >>
    ELSE IF Len(s) >= 2 /\ s[1] = "." /\ s[2] = "."
         THEN << segment >> \o SplitOnSegmentDelimiter(SubSeq(s, 3, Len(s)), << >>)
         ELSE SplitOnSegmentDelimiter(Tail(s), Append(segment, s[1]))

routeStringFormatHelper(route) == SplitOnSegmentDelimiter(route, << >>)

RECURSIVE JoinWithSegmentDelimiter(_)
JoinWithSegmentDelimiter(segments) ==
    IF segments = << >> THEN << >>
    ELSE IF Len(segments) = 1 THEN segments[1]
         ELSE segments[1] \o <<".", ".">> \o JoinWithSegmentDelimiter(Tail(segments))

\* the sequences of 1..n route segments
SegmentSequences(n) == UNION { [1..k -> Segments] : k \in 1..n }

\* the well-formed route strings of at most n segments
RouteStringsOf(n) == { JoinWithSegmentDelimiter(segs) : segs \in SegmentSequences(n) }

\* the well-formed route strings an aircraft is constructed with
RouteStrings == RouteStringsOf(MaxLegs)

(***************************************************************************)
(* The mode control panel: a mode and a value per axis.                    *)
(***************************************************************************)
AltitudeModes == {"OFF", "HOLD", "VNAV"}
HeadingModes == {"OFF", "HOLD", "LNAV"}
SpeedModes == {"OFF", "HOLD", "N1", "VNAV"}

ModeController ==
    [altitudeMode |-> "OFF", altitude |-> -1,
     headingMode |-> "OFF", heading |-> -1,
     speedMode |-> "OFF", speed |-> -1]

setModeAndValue(m, axis, mode, value) ==
    CASE axis = "altitude" -> [m EXCEPT !.altitudeMode = mode, !.altitude = value]
      [] axis = "heading" -> [m EXCEPT !.headingMode = mode, !.heading = value]
      [] axis = "speed" -> [m EXCEPT !.speedMode = mode, !.speed = value]

setModesForArrival(m) ==
    [m EXCEPT !.altitudeMode = "VNAV", !.headingMode = "LNAV", !.speedMode = "VNAV"]

setModesForDeparture(m) ==
    [m EXCEPT !.altitudeMode = "VNAV", !.headingMode = "LNAV", !.speedMode = "N1"]

\* the aircraft type's performance data read by getAltitude and getSpeed
TypeCeiling == 41000
TypeCruiseSpeed == 460

\* the values the simulation loop passes to the set* methods
AltitudeInputs == {9000}
HeadingInputs == {90, 270}
SpeedInputs == {250}
\* the names passed to skipToWaypoint
WaypointNameInputs ==
    {cowby, <<"C","O","W","B","Y">>, bikkr, <<"D","a","g">>, clarr, kepec, unknownFix}
\* the segments passed to addLegToBeginning
LegInputs == Segments \cup {unknownFix}

(***************************************************************************)
(* State of one Fms, and the outcome of the last call made on it.          *)
(***************************************************************************)
VARIABLES
    legCollection,      \* sequence of legs; legCollection[1] is the current leg
    currentPhase,       \* "arrival" | "departure", "" after destroy
    runwayName,         \* _runwayName
    navigationLibrary,  \* _navigationLibrary: "library", or "null" after destroy
    modeController,     \* _modeController
    nextLegId,          \* identity of the next leg addLegToBeginning constructs
    destroyedLegs,      \* ids of the legs whose destroy() ran, in call order
    ret                 \* the last call: operation, argument and outcome

(***************************************************************************)
(* State of one aircraft Model, of its asset load and of the aircraft list *)
(* it spawns into.                                                         *)
(***************************************************************************)
VARIABLES
    loading,            \* Model.loading
    loaded,             \* Model.loaded
    priorityLoad,       \* Model.priorityLoad
    pendingAircraft,    \* Model._pendingAircraft: the queued options, in order
    aircraftList,       \* prop.aircraft.list: the options spawned, in order
    loadPromise,        \* the promise load() waits on: "none" | "pending" | "resolved" | "rejected"
    priorityPromise,    \* the promise of the priority loadAsset call, which nobody waits on
    requests,           \* the options of every generateAircraft call, in call order
    accepted,           \* the options for which generateAircraft returned true, in call order
    modelRet            \* the last Model handler run and what generateAircraft returned

fmsVars == << legCollection, currentPhase, runwayName, navigationLibrary,
              modeController, nextLegId, destroyedLegs, ret >>

modelVars == << loading, loaded, priorityLoad, pendingAircraft, aircraftList,
                loadPromise, priorityPromise, requests, accepted, modelRet >>

vars == << fmsVars, modelVars >>

\* Model.init(options): a load is started only when options.url is set
ModelInit(hasUrl) ==
    /\ loading = TRUE
    /\ loaded = FALSE
    /\ priorityLoad = FALSE
    /\ pendingAircraft = << >>
    /\ aircraftList = << >>
    /\ loadPromise = IF hasUrl THEN "pending" ELSE "none"
    /\ priorityPromise = "none"
    /\ requests = << >>
    /\ accepted = << >>
    /\ modelRet = [op |-> "init", value |-> "undefined"]

Ret(op, arg, kind, num, bool, pos) ==
    [op |-> op, arg |-> arg, kind |-> kind, num |-> num, bool |-> bool, pos |-> pos]
RetVoid(op, arg) == Ret(op, arg, "undefined", 0, FALSE, << >>)
RetNumber(op, n) == Ret(op, << >>, "number", n, FALSE, << >>)
RetBoolean(op, b) == Ret(op, << >>, "boolean", 0, b, << >>)
RetPosition(op, p) == Ret(op, << >>, "position", 0, FALSE, p)
RetNull(op) == Ret(op, << >>, "null", 0, FALSE, << >>)
\* the call ended in an exception: err names it
RetThrow(op, arg, err) == Ret(op, arg, err, 0, FALSE, << >>)

Errors == {"TypeError", "LegPreconditionError", "LookupError"}
Threw == ret.kind \in Errors

(***************************************************************************)
(* Fms: getters and pure helpers.                                          *)
(***************************************************************************)
\* currentLeg is legCollection[0], which is undefined when the collection is empty
HasCurrentLeg(legs) == Len(legs) > 0
currentLeg(legs) == Nth(legs, 0)
currentWaypoint(legs) == LegCurrentWaypoint(currentLeg(legs))

currentRoute(legs) ==
    JoinWithSegmentDelimiter([i \in 1..Len(legs) |-> legs[i].routeString])

NoHeading == -999

\* mutant: the waypoint restriction is applied after the HOLD override
getAltitudeRestrictionLast(waypoint, m) ==
    LET held == IF m.altitudeMode = "HOLD" THEN m.altitude ELSE TypeCeiling
    IN  IF waypoint.altitudeRestriction # -1 THEN waypoint.altitudeRestriction ELSE held

getAltitude(waypoint, m) ==
    LET restricted == IF waypoint.altitudeRestriction # -1
                      THEN waypoint.altitudeRestriction
                      ELSE TypeCeiling
    IN  IF m.altitudeMode = "HOLD" THEN m.altitude ELSE restricted

\* mutant: the heading is returned in every mode that carries one, LNAV included
getHeadingWhenNotOff(m) == IF m.headingMode # "OFF" THEN m.heading ELSE NoHeading

getHeading(m) == IF m.headingMode = "HOLD" THEN m.heading ELSE NoHeading

\* mutant: the waypoint restriction is applied after the HOLD override
getSpeedRestrictionLast(waypoint, m) ==
    LET held == IF m.speedMode = "HOLD" THEN m.speed ELSE TypeCruiseSpeed
    IN  IF waypoint.speedRestriction # -1 THEN waypoint.speedRestriction ELSE held

getSpeed(waypoint, m) ==
    LET restricted == IF waypoint.speedRestriction # -1
                      THEN waypoint.speedRestriction
                      ELSE TypeCruiseSpeed
    IN  IF m.speedMode = "HOLD" THEN m.speed ELSE restricted

\* only evaluated when HasCurrentLeg(legs)
hasNextWaypoint(legs) == LegHasNextWaypoint(currentLeg(legs)) \/ Len(legs) > 1

\* mutant: the legs are built from the last segment to the first
_buildInitialLegCollectionReversed(route) ==
    LET routeStringSegments == routeStringFormatHelper(route)
        n == Len(routeStringSegments)
    IN  [i \in 1..n |-> LegModel(i, routeStringSegments[n + 1 - i])]

_buildInitialLegCollection(route) ==
    LET routeStringSegments == routeStringFormatHelper(route)
    IN  [i \in 1..Len(routeStringSegments) |-> LegModel(i, routeStringSegments[i])]

\* mutant: the cursor is moved twice
_moveToNextWaypointInLegTwice(legs) ==
    << LegMoveToNextWaypoint(LegMoveToNextWaypoint(currentLeg(legs))) >> \o Tail(legs)

_moveToNextWaypointInLeg(legs) ==
    << LegMoveToNextWaypoint(currentLeg(legs)) >> \o Tail(legs)

\* legCollection.shift(); the destroy() of the shifted leg is recorded by the caller
_moveToNextLeg(legs) == Tail(legs)

\* _findIndex(waypointCollection, { name }): 0-based index of the first match, or -1
RECURSIVE FindIndexFrom(_, _, _)
FindIndexFrom(waypoints, name, i) ==
    IF i >= Len(waypoints) THEN -1
    ELSE IF Nth(waypoints, i).name = name THEN i
         ELSE FindIndexFrom(waypoints, name, i + 1)

_findIndex(waypoints, name) == FindIndexFrom(waypoints, name, 0)

RECURSIVE FindLegFrom(_, _, _)
FindLegFrom(legs, name, legIndex) ==
    IF legIndex >= Len(legs) THEN [legIndex |-> legIndex, waypointIndex |-> -1]
    ELSE LET waypointIndex == _findIndex(Nth(legs, legIndex).waypointCollection, name)
         IN  IF waypointIndex # -1
             THEN [legIndex |-> legIndex, waypointIndex |-> waypointIndex]
             ELSE FindLegFrom(legs, name, legIndex + 1)

\* mutant: the name is compared as given, without toLowerCase()
_findLegAndWaypointIndexCaseSensitive(legs, waypointName) ==
    FindLegFrom(legs, waypointName, 0)

_findLegAndWaypointIndexForWaypointName(legs, waypointName) ==
    FindLegFrom(legs, toLowerCase(waypointName), 0)

\* lodash _drop(array, n)
_drop(legs, n) == SubSeq(legs, n + 1, Len(legs))

(***************************************************************************)
(* Construction.                                                           *)
(***************************************************************************)
Categories == {"arrival", "departure"}

InitFms(routes) ==
    \E route \in routes, category \in Categories :
        /\ legCollection = _buildInitialLegCollection(route)
        /\ currentPhase = category
        /\ runwayName = "19l"
        /\ navigationLibrary = "library"
        /\ modeController = ModeController
        /\ nextLegId = MaxLegs + 1
        /\ destroyedLegs = << >>
        /\ ret = RetVoid("constructor", route)

InitWith(routes) == InitFms(routes) /\ ModelInit(TRUE)

Init == InitWith(RouteStrings)

\* the aircraft is active until destroy()
Active == navigationLibrary # "null"

(***************************************************************************)
(* Target-value resolution.                                                *)
(***************************************************************************)
\* mutant: the resolved altitude is latched into the mode controller
GetAltitudeLatching ==
    /\ Active
    /\ HasCurrentLeg(legCollection)
    /\ LET altitude == getAltitude(currentWaypoint(legCollection), modeController)
       IN  /\ ret' = RetNumber("getAltitude", altitude)
           /\ modeController' = setModeAndValue(modeController, "altitude", "HOLD", altitude)
    /\ UNCHANGED << legCollection, currentPhase, runwayName, navigationLibrary,
                    nextLegId, destroyedLegs >>
    /\ UNCHANGED modelVars

GetAltitude ==
    /\ Active
    /\ ret' = IF HasCurrentLeg(legCollection)
              THEN RetNumber("getAltitude", getAltitude(currentWaypoint(legCollection), modeController))
              ELSE RetThrow("getAltitude", << >>, "TypeError")
    /\ UNCHANGED << legCollection, currentPhase, runwayName, navigationLibrary,
                    modeController, nextLegId, destroyedLegs >>
    /\ UNCHANGED modelVars

GetHeading ==
    /\ Active
    /\ ret' = RetNumber("getHeading", getHeading(modeController))
    /\ UNCHANGED << legCollection, currentPhase, runwayName, navigationLibrary,
                    modeController, nextLegId, destroyedLegs >>
    /\ UNCHANGED modelVars

GetSpeed ==
    /\ Active
    /\ ret' = IF HasCurrentLeg(legCollection)
              THEN RetNumber("getSpeed", getSpeed(currentWaypoint(legCollection), modeController))
              ELSE RetThrow("getSpeed", << >>, "TypeError")
    /\ UNCHANGED << legCollection, currentPhase, runwayName, navigationLibrary,
                    modeController, nextLegId, destroyedLegs >>
    /\ UNCHANGED modelVars

(***************************************************************************)
(* Mode control.                                                           *)
(***************************************************************************)
UpdateModesForArrival ==
    /\ Active
    /\ modeController' = setModesForArrival(modeController)
    /\ ret' = RetVoid("updateModesForArrival", << >>)
    /\ UNCHANGED << legCollection, currentPhase, runwayName, navigationLibrary,
                    nextLegId, destroyedLegs >>
    /\ UNCHANGED modelVars

UpdateModesForDeparture ==
    /\ Active
    /\ modeController' = setModesForDeparture(modeController)
    /\ ret' = RetVoid("updateModesForDeparture", << >>)
    /\ UNCHANGED << legCollection, currentPhase, runwayName, navigationLibrary,
                    nextLegId, destroyedLegs >>
    /\ UNCHANGED modelVars

SetAltitudeVnav ==
    /\ Active
    /\ IF HasCurrentLeg(legCollection)
       THEN /\ modeController' = setModeAndValue(modeController, "altitude", "VNAV",
                                     currentWaypoint(legCollection).altitudeRestriction)
            /\ ret' = RetVoid("setAltitudeVnav", << >>)
       ELSE /\ modeController' = modeController
            /\ ret' = RetThrow("setAltitudeVnav", << >>, "TypeError")
    /\ UNCHANGED << legCollection, currentPhase, runwayName, navigationLibrary,
                    nextLegId, destroyedLegs >>
    /\ UNCHANGED modelVars

SetAltitudeHold ==
    /\ Active
    /\ \E altitude \in AltitudeInputs :
        /\ modeController' = setModeAndValue(modeController, "altitude", "HOLD", altitude)
        /\ ret' = RetVoid("setAltitudeHold", << altitude >>)
    /\ UNCHANGED << legCollection, currentPhase, runwayName, navigationLibrary,
                    nextLegId, destroyedLegs >>
    /\ UNCHANGED modelVars

SetHeadingLnav ==
    /\ Active
    /\ \E heading \in HeadingInputs :
        /\ modeController' = setModeAndValue(modeController, "heading", "LNAV", heading)
        /\ ret' = RetVoid("setHeadingLnav", << heading >>)
    /\ UNCHANGED << legCollection, currentPhase, runwayName, navigationLibrary,
                    nextLegId, destroyedLegs >>
    /\ UNCHANGED modelVars

SetHeadingHold ==
    /\ Active
    /\ \E heading \in HeadingInputs :
        /\ modeController' = setModeAndValue(modeController, "heading", "HOLD", heading)
        /\ ret' = RetVoid("setHeadingHold", << heading >>)
    /\ UNCHANGED << legCollection, currentPhase, runwayName, navigationLibrary,
                    nextLegId, destroyedLegs >>
    /\ UNCHANGED modelVars

SetSpeedHold ==
    /\ Active
    /\ \E speed \in SpeedInputs :
        /\ modeController' = setModeAndValue(modeController, "speed", "HOLD", speed)
        /\ ret' = RetVoid("setSpeedHold", << speed >>)
    /\ UNCHANGED << legCollection, currentPhase, runwayName, navigationLibrary,
                    nextLegId, destroyedLegs >>
    /\ UNCHANGED modelVars

(***************************************************************************)
(* Waypoint sequencing.                                                    *)
(***************************************************************************)
\* LegModel.moveToNextWaypoint() on a leg without a next waypoint breaks the
\* leg's precondition: the call does nothing, or it ends in a fatal assertion
LegPreconditionOutcomes == {"noop", "fatal"}

\* mutant: the new leg is added at the end of the collection
push(legs, legModel) == legs \o << legModel >>

\* this.legCollection.unshift(legModel)
unshift(legs, legModel) == << legModel >> \o legs

AddLegToBeginning ==
    /\ Active
    /\ nextLegId <= MaxLegs + MaxAdds
    /\ \E routeString \in LegInputs :
        IF WaypointsForSegment(routeString) = << >>
        THEN \* the LegModel constructor throws before unshift()
             /\ ret' = RetThrow("addLegToBeginning", routeString, "LookupError")
             /\ UNCHANGED << legCollection, nextLegId >>
        ELSE /\ legCollection' = unshift(legCollection, LegModel(nextLegId, routeString))
             /\ nextLegId' = nextLegId + 1
             /\ ret' = RetVoid("addLegToBeginning", routeString)
    /\ UNCHANGED << currentPhase, runwayName, navigationLibrary, modeController,
                    destroyedLegs >>
    /\ UNCHANGED modelVars

HasNextWaypoint ==
    /\ Active
    /\ ret' = IF HasCurrentLeg(legCollection)
              THEN RetBoolean("hasNextWaypoint", hasNextWaypoint(legCollection))
              ELSE RetThrow("hasNextWaypoint", << >>, "TypeError")
    /\ UNCHANGED << legCollection, currentPhase, runwayName, navigationLibrary,
                    modeController, nextLegId, destroyedLegs >>
    /\ UNCHANGED modelVars

NextWaypoint ==
    /\ Active
    /\ IF ~HasCurrentLeg(legCollection)
       THEN \* this.currentLeg is undefined
            /\ ret' = RetThrow("nextWaypoint", << >>, "TypeError")
            /\ UNCHANGED << legCollection, destroyedLegs >>
       ELSE LET exhausted == ~LegHasNextWaypoint(currentLeg(legCollection))
                legs == IF exhausted THEN _moveToNextLeg(legCollection) ELSE legCollection
            IN  /\ destroyedLegs' = IF exhausted
                                    THEN Append(destroyedLegs, currentLeg(legCollection).id)
                                    ELSE destroyedLegs
                /\ IF ~HasCurrentLeg(legs)
                   THEN \* _moveToNextWaypointInLeg reads this.currentLeg, now undefined
                        /\ legCollection' = legs
                        /\ ret' = RetThrow("nextWaypoint", << >>, "TypeError")
                   ELSE IF LegHasNextWaypoint(currentLeg(legs))
                        THEN /\ legCollection' = _moveToNextWaypointInLeg(legs)
                             /\ ret' = RetVoid("nextWaypoint", << >>)
                        ELSE \E outcome \in LegPreconditionOutcomes :
                                /\ legCollection' = legs
                                /\ ret' = IF outcome = "noop"
                                          THEN RetVoid("nextWaypoint", << >>)
                                          ELSE RetThrow("nextWaypoint", << >>,
                                                        "LegPreconditionError")
    /\ UNCHANGED << currentPhase, runwayName, navigationLibrary, modeController,
                    nextLegId >>
    /\ UNCHANGED modelVars

SkipToWaypoint ==
    /\ Active
    /\ \E waypointName \in WaypointNameInputs :
        LET found == _findLegAndWaypointIndexForWaypointName(legCollection, waypointName)
            legs == _drop(legCollection, found.legIndex)
        IN  IF ~HasCurrentLeg(legs)
            THEN \* this.currentLeg is undefined after the drop
                 /\ legCollection' = legs
                 /\ ret' = RetThrow("skipToWaypoint", waypointName, "TypeError")
            ELSE /\ legCollection' =
                        << LegSkipToWaypointAtIndex(currentLeg(legs), found.waypointIndex) >>
                            \o Tail(legs)
                 /\ ret' = RetVoid("skipToWaypoint", waypointName)
    /\ UNCHANGED << currentPhase, runwayName, navigationLibrary, modeController,
                    nextLegId, destroyedLegs >>
    /\ UNCHANGED modelVars

GetNextWaypointPosition ==
    /\ Active
    /\ ret' = IF ~HasCurrentLeg(legCollection)
              THEN \* hasNextWaypoint() reads this.currentLeg, which is undefined
                   RetThrow("getNextWaypointPosition", << >>, "TypeError")
              ELSE IF ~hasNextWaypoint(legCollection)
                   THEN RetNull("getNextWaypointPosition")
                   ELSE IF ~LegHasNextWaypoint(currentLeg(legCollection))
                        THEN \* currentLeg.nextWaypoint is undefined: reading its
                             \* position throws before legCollection[1] is looked at
                             RetThrow("getNextWaypointPosition", << >>, "TypeError")
                        ELSE RetPosition("getNextWaypointPosition",
                                         LegNextWaypoint(currentLeg(legCollection)).position)
    /\ UNCHANGED << legCollection, currentPhase, runwayName, navigationLibrary,
                    modeController, nextLegId, destroyedLegs >>
    /\ UNCHANGED modelVars

Destroy ==
    /\ Active
    /\ navigationLibrary' = "null"
    /\ runwayName' = ""
    /\ legCollection' = << >>
    /\ currentPhase' = ""
    /\ ret' = RetVoid("destroy", << >>)
    /\ UNCHANGED << modeController, nextLegId, destroyedLegs >>
    /\ UNCHANGED modelVars

(***************************************************************************)
(* Specifications.  The sequencing methods never read the mode controller  *)
(* and the mode methods never write legCollection, so the two halves of    *)
(* the Fms are explored separately: SpecSequencing leaves the mode         *)
(* controller as constructed, SpecTargets walks the route with             *)
(* nextWaypoint() only.                                                    *)
(***************************************************************************)
(***************************************************************************)
(* The aircraft Model: generateAircraft() and the callbacks of load().     *)
(***************************************************************************)
\* _generateAircraft(options): options.model = this, and the aircraft built from
\* the options is pushed on prop.aircraft.list
_generateAircraft(list, options) == Append(list, [options EXCEPT !.model = "this"])

\* mutant: the queued options are spawned from the newest to the oldest
RECURSIVE _generatePendingAircraftNewestFirst(_, _)
_generatePendingAircraftNewestFirst(list, pending) ==
    IF pending = << >> THEN list
    ELSE _generatePendingAircraftNewestFirst(
            _generateAircraft(list, pending[Len(pending)]),
            SubSeq(pending, 1, Len(pending) - 1))

\* $.each(this._pendingAircraft, ...): _generateAircraft on each, in queue order
RECURSIVE _generatePendingAircraft(_, _)
_generatePendingAircraft(list, pending) ==
    IF pending = << >> THEN list
    ELSE _generatePendingAircraft(_generateAircraft(list, Head(pending)), Tail(pending))

GenerateAircraft ==
    /\ Len(requests) < MaxRequests
    /\ \E category \in Categories :
        LET options == [id |-> Len(requests) + 1, category |-> category, model |-> ""]
        IN  /\ requests' = Append(requests, options)
            /\ IF ~loaded
               THEN IF loading
                    THEN /\ pendingAircraft' = Append(pendingAircraft, options)
                         /\ priorityLoad' = TRUE
                         /\ priorityPromise' = IF ~priorityLoad THEN "pending"
                                                ELSE priorityPromise
                         /\ accepted' = Append(accepted, options)
                         /\ modelRet' = [op |-> "generateAircraft", value |-> "true"]
                         /\ UNCHANGED aircraftList
                    ELSE /\ modelRet' = [op |-> "generateAircraft", value |-> "false"]
                         /\ UNCHANGED << pendingAircraft, priorityLoad, priorityPromise,
                                         accepted, aircraftList >>
               ELSE /\ aircraftList' = _generateAircraft(aircraftList, options)
                    /\ accepted' = Append(accepted, options)
                    /\ modelRet' = [op |-> "generateAircraft", value |-> "true"]
                    /\ UNCHANGED << pendingAircraft, priorityLoad, priorityPromise >>
    /\ UNCHANGED << loading, loaded, loadPromise >>
    /\ UNCHANGED fmsVars

\* the .done callback of load()
LoadDone ==
    /\ loadPromise = "pending"
    /\ loadPromise' = "resolved"
    /\ loading' = FALSE
    /\ loaded' = TRUE
    /\ aircraftList' = _generatePendingAircraft(aircraftList, pendingAircraft)
    /\ pendingAircraft' = << >>
    /\ modelRet' = [op |-> "done", value |-> "undefined"]
    /\ UNCHANGED << priorityLoad, priorityPromise, requests, accepted >>
    /\ UNCHANGED fmsVars

\* mutant: the failure callback leaves the queue as it is
LoadFailKeepingQueue ==
    /\ loadPromise = "pending"
    /\ loadPromise' = "rejected"
    /\ loading' = FALSE
    /\ modelRet' = [op |-> "fail", value |-> "undefined"]
    /\ UNCHANGED << loaded, pendingAircraft, aircraftList, priorityLoad, priorityPromise,
                    requests, accepted >>
    /\ UNCHANGED fmsVars

\* the .fail callback of load()
LoadFail ==
    /\ loadPromise = "pending"
    /\ loadPromise' = "rejected"
    /\ loading' = FALSE
    /\ pendingAircraft' = << >>
    /\ modelRet' = [op |-> "fail", value |-> "undefined"]
    /\ UNCHANGED << loaded, aircraftList, priorityLoad, priorityPromise, requests,
                    accepted >>
    /\ UNCHANGED fmsVars

\* the priority loadAsset call of generateAircraft() completes or fails; no
\* callback was attached to the promise it returned
PriorityLoadSettles ==
    /\ priorityPromise = "pending"
    /\ priorityPromise' = "settled"
    /\ UNCHANGED << loading, loaded, priorityLoad, pendingAircraft, aircraftList,
                    loadPromise, requests, accepted, modelRet >>
    /\ UNCHANGED fmsVars

NextSequencing ==
    \/ AddLegToBeginning
    \/ HasNextWaypoint
    \/ NextWaypoint
    \/ SkipToWaypoint
    \/ GetNextWaypointPosition
    \/ Destroy

NextTargets ==
    \/ GetAltitude
    \/ GetHeading
    \/ GetSpeed
    \/ UpdateModesForArrival
    \/ UpdateModesForDeparture
    \/ SetAltitudeVnav
    \/ SetAltitudeHold
    \/ SetHeadingLnav
    \/ SetHeadingHold
    \/ SetSpeedHold
    \/ NextWaypoint
    \/ HasNextWaypoint
    \/ GetNextWaypointPosition

NextModel ==
    \/ GenerateAircraft
    \/ LoadDone
    \/ LoadFail
    \/ PriorityLoadSettles

\* walking a route: nextWaypoint() is called as long as hasNextWaypoint() is true
WalkRoute ==
    /\ ~Threw      \* an exception thrown by nextWaypoint() ends the caller's loop
    /\ HasCurrentLeg(legCollection)
    /\ hasNextWaypoint(legCollection)
    /\ NextWaypoint

InitWalk == InitWith(RouteStringsOf(MaxWalkLegs))

SpecSequencing == Init /\ [][NextSequencing]_vars

\* a Model constructed with or without options.url, next to one aircraft's Fms
InitModel == InitFms({kepecStar}) /\ \E hasUrl \in BOOLEAN : ModelInit(hasUrl)

SpecModel == InitModel /\ [][NextModel]_vars

\* every load that was started completes or fails
SpecModelLoadsSettle ==
    SpecModel /\ WF_vars(LoadDone \/ LoadFail) /\ WF_vars(PriorityLoadSettles)

\* the caller keeps walking: a call that is due is eventually made
SpecWalk == InitWalk /\ [][WalkRoute]_vars /\ WF_vars(WalkRoute)

SpecTargets == Init /\ [][NextTargets]_vars

(***************************************************************************)
(* Vocabulary of the properties, stated without the Fms's own search.      *)
(***************************************************************************)
LegContains(leg, name) ==
    \E i \in 1..Len(leg.waypointCollection) : leg.waypointCollection[i].name = name

RouteContains(legs, name) == \E k \in 1..Len(legs) : LegContains(legs[k], name)

\* number of legs before the first leg that contains name
LegsBeforeFirstMatch(legs, name) ==
    CHOOSE n \in 0..(Len(legs) - 1) :
        /\ LegContains(legs[n + 1], name)
        /\ \A j \in 1..n : ~LegContains(legs[j], name)

\* the step taken is a call of op
Called(op) == ret'.op = op

(***************************************************************************)
(* C1.  From construction on, hasNextWaypoint() is false if and only if    *)
(* nextWaypoint() is a no-op: it completes without failure and leaves      *)
(* legCollection, cursors included, unchanged.                             *)
(***************************************************************************)
C1_NextWaypointNoOpIffNoNextWaypoint ==
    [][ (Called("nextWaypoint") /\ HasCurrentLeg(legCollection)) =>
            ( ~hasNextWaypoint(legCollection)
                <=> (ret'.kind = "undefined" /\ legCollection' = legCollection) )
      ]_vars

(***************************************************************************)
(* C2.  skipToWaypoint(name) with a name no leg contains fails with        *)
(* WaypointNotFoundError and leaves legCollection exactly as it was.       *)
(***************************************************************************)
C2_SkipToUnknownWaypointChangesNothing ==
    [][ (Called("skipToWaypoint") /\ ~RouteContains(legCollection, toLowerCase(ret'.arg))) =>
            ( ret'.kind = "WaypointNotFoundError" /\ legCollection' = legCollection )
      ]_vars

(***************************************************************************)
(* C3.  skipToWaypoint(name) with a name some leg contains, compared       *)
(* case-insensitively, completes with currentWaypoint.name equal to the    *)
(* lower-cased name; exactly the legs before the first leg containing the  *)
(* name are removed, the matching leg becomes the current leg and the      *)
(* later legs are kept as they were, in order.                             *)
(***************************************************************************)
C3_SkipToWaypointDropsLegsBeforeFirstMatch ==
    [][ (Called("skipToWaypoint") /\ RouteContains(legCollection, toLowerCase(ret'.arg))) =>
            LET name == toLowerCase(ret'.arg)
                n == LegsBeforeFirstMatch(legCollection, name)
            IN  /\ ret'.kind = "undefined"
                /\ Len(legCollection') = Len(legCollection) - n
                /\ currentWaypoint(legCollection').name = name
                /\ currentLeg(legCollection').id = legCollection[n + 1].id
                /\ currentLeg(legCollection').waypointCollection
                        = legCollection[n + 1].waypointCollection
                /\ \A i \in 2..Len(legCollection') : legCollection'[i] = legCollection[n + i]
      ]_vars

\* "Dag" was skipped to: leg 1 of cowby..dag.kepec3.klas or bikkr..dag.kepec3.klas
\* is gone and the procedure leg is current, at dag
C3_Witness ==
    /\ ret.op = "skipToWaypoint"
    /\ ret.kind = "undefined"
    /\ ret.arg = <<"D","a","g">>
    /\ Len(legCollection) = 1
    /\ currentLeg(legCollection).id = 2
    /\ currentWaypoint(legCollection).name = dag

(***************************************************************************)
(* C4.  While the aircraft is active, legCollection holds at least one     *)
(* leg.                                                                    *)
(***************************************************************************)
C4_LegCollectionNeverEmptyWhileActive == Active => Len(legCollection) >= 1

(***************************************************************************)
(* C5.  getNextWaypointPosition() never fails; it returns null exactly     *)
(* when hasNextWaypoint() is false, the position of the current leg's next *)
(* waypoint when there is one, and otherwise the position of the first     *)
(* waypoint of the following leg.  Stated for the states that have a       *)
(* current leg.                                                            *)
(***************************************************************************)
C5_GetNextWaypointPositionNeverFails ==
    (ret.op = "getNextWaypointPosition" /\ HasCurrentLeg(legCollection)) =>
        /\ ~Threw
        /\ (ret.kind = "null") <=> ~hasNextWaypoint(legCollection)
        /\ LegHasNextWaypoint(currentLeg(legCollection)) =>
                /\ ret.kind = "position"
                /\ ret.pos = LegNextWaypoint(currentLeg(legCollection)).position
        /\ (~LegHasNextWaypoint(currentLeg(legCollection)) /\ Len(legCollection) > 1) =>
                /\ ret.kind = "position"
                /\ ret.pos = Nth(Nth(legCollection, 1).waypointCollection, 0).position

(***************************************************************************)
(* C6.  nextWaypoint() called when the current leg has no next waypoint    *)
(* and a following leg exists drops the current leg and makes the first    *)
(* waypoint of the following leg the current waypoint.                     *)
(***************************************************************************)
C6_NextLegStartsAtItsFirstWaypoint ==
    [][ ( /\ Called("nextWaypoint")
          /\ HasCurrentLeg(legCollection)
          /\ ~LegHasNextWaypoint(currentLeg(legCollection))
          /\ Len(legCollection) > 1 ) =>
            /\ Len(legCollection') = Len(legCollection) - 1
            /\ currentLeg(legCollection').id = Nth(legCollection, 1).id
            /\ currentWaypoint(legCollection')
                    = Nth(Nth(legCollection, 1).waypointCollection, 0)
      ]_vars

(***************************************************************************)
(* C7.  While the current leg has a next waypoint, nextWaypoint()          *)
(* completes and moves the cursor to exactly the following entry of the    *)
(* leg's waypointCollection; no leg is removed, destroyed or otherwise     *)
(* changed.                                                                *)
(***************************************************************************)
C7_NextWaypointAdvancesByOneWithinLeg ==
    [][ ( /\ Called("nextWaypoint")
          /\ HasCurrentLeg(legCollection)
          /\ LegHasNextWaypoint(currentLeg(legCollection)) ) =>
            LET leg == currentLeg(legCollection)
            IN  /\ ret'.kind = "undefined"
                /\ legCollection' =
                        << [leg EXCEPT !.currentIndex = leg.currentIndex + 1] >>
                            \o Tail(legCollection)
                /\ currentWaypoint(legCollection')
                        = Nth(leg.waypointCollection, leg.currentIndex + 1)
                /\ destroyedLegs' = destroyedLegs
      ]_vars

\* two calls in a row walked the procedure leg from dag over clarr to kepec
C7_Witness ==
    /\ ret.op = "nextWaypoint"
    /\ ret.kind = "undefined"
    /\ HasCurrentLeg(legCollection)
    /\ currentLeg(legCollection).id = 1
    /\ currentLeg(legCollection).currentIndex = 2
    /\ currentWaypoint(legCollection).name = kepec
    /\ destroyedLegs = << >>

(***************************************************************************)
(* C8.  With a current waypoint, getAltitude() returns the mode            *)
(* controller's altitude when the altitude mode is HOLD, whatever the      *)
(* restriction; otherwise the current waypoint's altitudeRestriction when  *)
(* it is not -1; otherwise the aircraft type's ceiling.                    *)
(***************************************************************************)
C8_GetAltitudePrecedence ==
    (ret.op = "getAltitude" /\ HasCurrentLeg(legCollection)) =>
        /\ ret.kind = "number"
        /\ modeController.altitudeMode = "HOLD" => ret.num = modeController.altitude
        /\ ( /\ modeController.altitudeMode # "HOLD"
             /\ currentWaypoint(legCollection).altitudeRestriction # -1 ) =>
                ret.num = currentWaypoint(legCollection).altitudeRestriction
        /\ ( /\ modeController.altitudeMode # "HOLD"
             /\ currentWaypoint(legCollection).altitudeRestriction = -1 ) =>
                ret.num = TypeCeiling

\* ceiling 41000, restriction 11000 at kepec, 9000 held: getAltitude() gave 9000
C8_Witness ==
    /\ ret.op = "getAltitude"
    /\ HasCurrentLeg(legCollection)
    /\ modeController.altitudeMode = "HOLD"
    /\ modeController.altitude = 9000
    /\ currentWaypoint(legCollection).altitudeRestriction = 11000
    /\ ret.num = 9000

(***************************************************************************)
(* C9.  getHeading() returns -999 whenever the heading mode is not HOLD,   *)
(* whatever heading was passed to setHeadingLnav, and exactly the mode     *)
(* controller's heading when the mode is HOLD.                             *)
(***************************************************************************)
C9_GetHeadingSentinelUnlessHold ==
    ret.op = "getHeading" =>
        /\ ret.kind = "number"
        /\ modeController.headingMode = "HOLD" => ret.num = modeController.heading
        /\ modeController.headingMode # "HOLD" => ret.num = -999

\* LNAV was set with heading 270 and getHeading() still gave -999
C9_Witness ==
    /\ ret.op = "getHeading"
    /\ modeController.headingMode = "LNAV"
    /\ modeController.heading = 270
    /\ ret.num = -999

(***************************************************************************)
(* C10.  With a current waypoint, getSpeed() returns the mode controller's *)
(* speed when the speed mode is HOLD; otherwise the current waypoint's     *)
(* speedRestriction when it is not -1; otherwise the aircraft type's       *)
(* cruise speed.                                                           *)
(***************************************************************************)
C10_GetSpeedPrecedence ==
    (ret.op = "getSpeed" /\ HasCurrentLeg(legCollection)) =>
        /\ ret.kind = "number"
        /\ modeController.speedMode = "HOLD" => ret.num = modeController.speed
        /\ ( /\ modeController.speedMode # "HOLD"
             /\ currentWaypoint(legCollection).speedRestriction # -1 ) =>
                ret.num = currentWaypoint(legCollection).speedRestriction
        /\ ( /\ modeController.speedMode # "HOLD"
             /\ currentWaypoint(legCollection).speedRestriction = -1 ) =>
                ret.num = TypeCruiseSpeed

\* bikkr restricts the speed to 280, 250 is held: getSpeed() gave 250
C10_Witness ==
    /\ ret.op = "getSpeed"
    /\ HasCurrentLeg(legCollection)
    /\ modeController.speedMode = "HOLD"
    /\ modeController.speed = 250
    /\ currentWaypoint(legCollection).speedRestriction = 280
    /\ ret.num = 250

LegIds(legs) == { legs[i].id : i \in 1..Len(legs) }

\* how many times destroy() was invoked on the leg with this id
DestroyCount(log, id) == Cardinality({ i \in 1..Len(log) : log[i] = id })

(***************************************************************************)
(* C12.  Every leg removed from legCollection by nextWaypoint() or by      *)
(* skipToWaypoint() has had destroy() invoked exactly once, and no leg     *)
(* still in legCollection has been destroyed.                              *)
(***************************************************************************)
C12_RemovedLegsDestroyedExactlyOnce ==
    [][ (Called("nextWaypoint") \/ Called("skipToWaypoint")) =>
            /\ \A id \in LegIds(legCollection) \ LegIds(legCollection') :
                    DestroyCount(destroyedLegs', id) = 1
            /\ \A id \in LegIds(legCollection') :
                    DestroyCount(destroyedLegs', id) = 0 ]_vars

(***************************************************************************)
(* C13.  addLegToBeginning(routeString) succeeds exactly when the segment  *)
(* resolves; then the new leg is legCollection[0] with its cursor at its   *)
(* first waypoint, the collection has grown by one, and the legs that were *)
(* there follow in their order with their cursors unchanged.  When leg     *)
(* construction fails, legCollection is as it was.                         *)
(***************************************************************************)
C13_AddLegToBeginningFrame ==
    [][ Called("addLegToBeginning") =>
            IF WaypointsForSegment(ret'.arg) = << >>
            THEN /\ ret'.kind \in Errors
                 /\ legCollection' = legCollection
            ELSE /\ ret'.kind = "undefined"
                 /\ Len(legCollection') = Len(legCollection) + 1
                 /\ Tail(legCollection') = legCollection
                 /\ currentLeg(legCollection').id \notin LegIds(legCollection)
                 /\ currentLeg(legCollection').waypointCollection
                        = WaypointsForSegment(ret'.arg)
                 /\ currentLeg(legCollection').currentIndex = 0
                 /\ currentWaypoint(legCollection')
                        = Nth(WaypointsForSegment(ret'.arg), 0)
      ]_vars

\* a leg was added in front of the procedure leg that had been walked to clarr
C13_Witness ==
    /\ ret.op = "addLegToBeginning"
    /\ ret.kind = "undefined"
    /\ Len(legCollection) = 2
    /\ currentLeg(legCollection).id = MaxLegs + 1
    /\ currentLeg(legCollection).currentIndex = 0
    /\ legCollection[2].id = 1
    /\ legCollection[2].currentIndex = 1
    /\ legCollection[2].waypointCollection[2].name = clarr

\* the read operations of the Fms
ReadOps == {"getAltitude", "getHeading", "getSpeed", "hasNextWaypoint",
            "getNextWaypointPosition"}

(***************************************************************************)
(* C14.  getAltitude(), getHeading(), getSpeed(), hasNextWaypoint() and    *)
(* getNextWaypointPosition() are pure: a call leaves legCollection with    *)
(* every leg's cursor, the mode controller, currentPhase and the runway    *)
(* name unchanged, and a call that follows a call of the same read         *)
(* returns the same result.                                                *)
(***************************************************************************)
C14_ReadOperationsArePure ==
    [][ ret'.op \in ReadOps =>
            /\ UNCHANGED << legCollection, modeController, currentPhase, runwayName,
                            navigationLibrary, destroyedLegs >>
            /\ ret.op = ret'.op => ret' = ret
      ]_vars

\* getAltitude() answered the restriction at clarr, reached by nextWaypoint(),
\* and the cursor is still at clarr
C14_Witness ==
    /\ ret.op = "getAltitude"
    /\ ret.kind = "number"
    /\ ret.num = 13000
    /\ HasCurrentLeg(legCollection)
    /\ currentLeg(legCollection).currentIndex = 1
    /\ currentWaypoint(legCollection).name = clarr
    /\ modeController.altitudeMode # "HOLD"

\* the collection nextWaypoint() hands to _moveToNextWaypointInLeg(): the current
\* leg has been shifted out when it had no next waypoint
LegsAtMoveToNextWaypointInLeg(legs) ==
    IF LegHasNextWaypoint(currentLeg(legs)) THEN legs ELSE _moveToNextLeg(legs)

(***************************************************************************)
(* C15.  In every call of nextWaypoint(), the leg on which                 *)
(* moveToNextWaypoint() is invoked has a next waypoint at that moment,     *)
(* also when the previous current leg has just been dropped.               *)
(***************************************************************************)
C15_MoveToNextWaypointOnlyWithNextWaypoint ==
    [][ (Called("nextWaypoint") /\ HasCurrentLeg(legCollection)) =>
            LET legs == LegsAtMoveToNextWaypointInLeg(legCollection)
            IN  /\ HasCurrentLeg(legs) => LegHasNextWaypoint(currentLeg(legs))
                /\ ret'.kind # "LegPreconditionError"
      ]_vars

\* the waypoints not yet flown past: those from each leg's cursor on
RECURSIVE RemainingWaypoints(_)
RemainingWaypoints(legs) ==
    IF legs = << >> THEN 0
    ELSE Len(legs[1].waypointCollection) - legs[1].currentIndex
            + RemainingWaypoints(Tail(legs))

\* the walk is at the end of a route of n legs
AtEndOfRoute(n) ==
    /\ Len(legCollection) = 1
    /\ currentLeg(legCollection).id = n
    /\ currentLeg(legCollection).currentIndex
            = Len(currentLeg(legCollection).waypointCollection) - 1
    /\ ~hasNextWaypoint(legCollection)

(***************************************************************************)
(* C16.  Walking a route terminates: calling nextWaypoint() as long as     *)
(* hasNextWaypoint() is true uses up at least one of the route's waypoints *)
(* per call, and ends with hasNextWaypoint() false, legCollection holding  *)
(* exactly the last leg and currentWaypoint its last waypoint.             *)
(***************************************************************************)
C16_WalkingARouteTerminates ==
    /\ [][ Called("nextWaypoint") =>
                RemainingWaypoints(legCollection') < RemainingWaypoints(legCollection)
         ]_vars
    /\ \A n \in 1..MaxWalkLegs :
            (ret.op = "constructor" /\ Len(legCollection) = n) => <>AtEndOfRoute(n)

\* position a on the route is not later than position b; the legs built from
\* the route are numbered in route order
NotLaterThan(a, b) ==
    \/ a.id < b.id
    \/ a.id = b.id /\ a.currentIndex <= b.currentIndex

(***************************************************************************)
(* C17.  When no leg was added with addLegToBeginning, a nextWaypoint()    *)
(* call or a skipToWaypoint(name) call with a name on the route never      *)
(* leaves the position (current leg, cursor) earlier than it was; in       *)
(* particular skipToWaypoint does not set the cursor back to a waypoint    *)
(* of the current leg that was already flown.                              *)
(***************************************************************************)
C17_SequencingNeverMovesBackwards ==
    [][ ( /\ nextLegId = MaxLegs + 1
          /\ HasCurrentLeg(legCollection) /\ HasCurrentLeg(legCollection')
          /\ \/ Called("nextWaypoint")
             \/ Called("skipToWaypoint")
                    /\ RouteContains(legCollection, toLowerCase(ret'.arg)) )
        => NotLaterThan(currentLeg(legCollection), currentLeg(legCollection'))
      ]_vars

\* the aircraft that spawning a sequence of options puts on the list, in order
SpawnedFrom(optionsSeq) ==
    [i \in 1..Len(optionsSeq) |-> [optionsSeq[i] EXCEPT !.model = "this"]]

\* the step taken is a call of generateAircraft()
CalledGenerateAircraft == Len(requests') = Len(requests) + 1

(***************************************************************************)
(* C18.  While the Model is loading, generateAircraft(options) queues the  *)
(* options and returns true without spawning.  When the load succeeds,     *)
(* the queued requests are spawned once each in the order requested and    *)
(* the queue is empty; later calls spawn immediately.  Unless the load     *)
(* failed, the accepted requests are exactly those spawned followed by     *)
(* those queued: none is lost and none is spawned twice.                   *)
(***************************************************************************)
C18_QueuedRequestsSpawnOnceInOrder ==
    /\ [][ (CalledGenerateAircraft /\ loading /\ ~loaded) =>
                /\ pendingAircraft' = Append(pendingAircraft, requests'[Len(requests')])
                /\ modelRet'.value = "true"
                /\ aircraftList' = aircraftList ]_vars
    /\ [][ (loadPromise = "pending" /\ loadPromise' = "resolved") =>
                /\ aircraftList' = aircraftList \o SpawnedFrom(pendingAircraft)
                /\ pendingAircraft' = << >>
                /\ loaded' ]_vars
    /\ [][ (CalledGenerateAircraft /\ loaded) =>
                /\ aircraftList'
                        = aircraftList \o SpawnedFrom(<< requests'[Len(requests')] >>)
                /\ modelRet'.value = "true"
                /\ pendingAircraft' = << >> ]_vars
    /\ [](loadPromise # "rejected" =>
                SpawnedFrom(accepted) = aircraftList \o SpawnedFrom(pendingAircraft))

\* two requests were queued and spawned by the load, a third was spawned at once
C18_Witness ==
    /\ loadPromise = "resolved"
    /\ loaded
    /\ priorityLoad
    /\ modelRet = [op |-> "generateAircraft", value |-> "true"]
    /\ Len(aircraftList) = 3
    /\ \A i \in 1..3 : aircraftList[i].id = i /\ aircraftList[i].model = "this"
    /\ pendingAircraft = << >>

(***************************************************************************)
(* C19.  When the load fails, the queued requests are discarded and never  *)
(* spawned, the Model has loading = false and loaded = false from then on, *)
(* and every later generateAircraft() returns false without queuing or     *)
(* spawning.  loading and loaded are never both true.                      *)
(***************************************************************************)
C19_LoadFailureDiscardsAndRejects ==
    /\ [](~(loading /\ loaded))
    /\ [](loadPromise = "rejected" =>
                /\ ~loading /\ ~loaded
                /\ pendingAircraft = << >>
                /\ aircraftList = << >>)
    /\ [][ (CalledGenerateAircraft /\ loadPromise = "rejected") =>
                /\ modelRet'.value = "false"
                /\ UNCHANGED << pendingAircraft, aircraftList, accepted >> ]_vars

\* two requests were queued, the load failed, and a third request was refused
C19_Witness ==
    /\ loadPromise = "rejected"
    /\ modelRet = [op |-> "generateAircraft", value |-> "false"]
    /\ Len(requests) = 3
    /\ Len(accepted) = 2
    /\ pendingAircraft = << >>
    /\ aircraftList = << >>

\* the i-th accepted request has been spawned, or discarded by the load failure
Settled(i) ==
    \/ \E j \in 1..Len(aircraftList) : aircraftList[j].id = accepted[i].id
    \/ /\ loadPromise = "rejected"
       /\ \A j \in 1..Len(pendingAircraft) : pendingAircraft[j].id # accepted[i].id

(***************************************************************************)
(* C20.  For every Model, one constructed without a url included, each     *)
(* request for which generateAircraft() returned true is eventually        *)
(* spawned or discarded by a load failure, given that every load that was  *)
(* started completes or fails.                                             *)
(***************************************************************************)
C20_NoRequestPendingForever ==
    \A i \in 1..MaxRequests :
        (Len(accepted) >= i) ~> (Len(accepted) >= i /\ Settled(i))

=============================================================================
